---------------------------- MODULE Spec2Model ----------------------------
(***************************************************************************)
(* Model of the reward-wheel spinner of the Timely app                     *)
(* (src/src/components/RewardWheelSpinner.tsx), and of the reminder screen *)
(* of the app with its notification handlers (src/unnamed/part_000 and     *)
(* src/index.js).                                                          *)
(*                                                                         *)
(* Numbers.  The component computes with IEEE-754 doubles.  Here an angle  *)
(* is an integer count of grid units, Deg units to the degree, and a       *)
(* result of + or - is rounded to MantBits significant bits, ties to even, *)
(* the way a double is rounded to 53.  Every angle the wheel itself        *)
(* produces (slice widths, margins, targets up to nine turns) is a         *)
(* multiple of Coarse units that fits MantBits bits, so on those the       *)
(* arithmetic is exact; only inputs below the rounding step near 360 see   *)
(* the rounding, as happens with doubles.                                  *)
(***************************************************************************)
EXTENDS Integers, Naturals, Sequences, FiniteSets, TLC

VARIABLES
    segCount,         \* segments.length (prop)
    weightPat,        \* which weights the segments carry (prop)
    fullTurns,        \* prop fullTurns
    disabled,         \* prop disabled
    hasOnSpinEnd,     \* whether the onSpinEnd prop is given
    isSpinning,       \* the isSpinning state as seen by the current render
    pendingSpinning,  \* the value queued by setIsSpinning for the next render
    rotation,         \* Animated.Value rotation: its current value
    baseRotationDeg,  \* baseRotationDegRef.current
    lastTickIndex,    \* lastTickIndexRef.current (Null or an index)
    selectedIndex,    \* the selectedIndex state (Null or an index)
    anim,             \* the animation running on rotation, or NoAnim
    spinLog,          \* per accepted handleSpin: what it chose and computed
    endLog,           \* the calls of onSpinEnd, in order
    doneLog,          \* the completion callbacks run, in order
    ticks,            \* number of tick haptics fired so far
    requests,         \* number of handleSpin calls so far, refused or not
    vibrateErrors,    \* number of Vibration.vibrate calls that threw
    probe,            \* inputs and results of the function under study
    startTime,        \* the startTime state: Null or an instant
    durationHours,    \* the durationHours text: Null when empty, or its number
    durationMinutes,  \* the durationMinutes text: Null when empty, or its number
    history,          \* the history state, newest first
    lastAlert,        \* title of the last Alert.alert shown, "" before any
    now,              \* the clock, Date.now(), in minutes
    platform,         \* Platform.OS
    authStatus,       \* authorizationStatus of the notification settings
    channelBlocked,   \* whether the reminders channel is blocked
    inForeground,     \* whether the app is in the foreground
    notifications,    \* the notifications notifee holds: pending and shown
    nextId,           \* the id notifee gives the next notification created
    lastEvent         \* the last request handled, numbered

wheelVars ==
    << segCount, weightPat, fullTurns, disabled, hasOnSpinEnd, isSpinning,
       pendingSpinning, rotation, baseRotationDeg, lastTickIndex,
       selectedIndex, anim, spinLog, endLog, doneLog, ticks, requests,
       vibrateErrors >>

vars ==
    << segCount, weightPat, fullTurns, disabled, hasOnSpinEnd, isSpinning,
       pendingSpinning, rotation, baseRotationDeg, lastTickIndex,
       selectedIndex, anim, spinLog, endLog, doneLog, ticks, requests,
       vibrateErrors, probe, startTime, durationHours, durationMinutes,
       history, lastAlert, now, platform, authStatus, channelBlocked,
       inForeground, notifications, nextId, lastEvent >>

appVars ==
    << startTime, durationHours, durationMinutes, history, lastAlert, now,
       platform, authStatus, channelBlocked, inForeground, notifications,
       nextId, lastEvent >>

\* null of a ref or state holding an index (indices are >= 0)
Null == -1
NoAnim == [phase |-> "none"]
NoProbe == [fn |-> "none"]
NoEvent ==
    [n |-> 0, kind |-> "none", handler |-> "", id |-> Null, at |-> Null,
     body |-> ""]

-----------------------------------------------------------------------------
(* Bounds of the model *)

\* binary digits of an angle below the coarse grid
FracBits == 5
\* significant bits kept by an addition or subtraction (53 in a double)
MantBits == 16
\* Math.random() takes the values 0/RandDen .. (RandDen-1)/RandDen
RandDen == 4
\* handleSpin calls accepted in one behaviour
MaxSpins == 2
\* largest rotation, in turns, fed to the pure functions
MaxTurnsIn == 2
\* handleSpin calls, refused or not, in one behaviour
MaxRequests == 3
\* Vibration.vibrate calls that throw in one behaviour
MaxVibrateErrors == 1

\* the clock at the start, and the last instant it reaches, in minutes
FirstInstant == 30
LastInstant == 45
\* minutes between local time and UTC
TzOffset == 330
\* schedule requests and notification actions handled in one behaviour
MaxEvents == 3
\* the schedule requests are among the first MaxSchedules of them
MaxSchedules == 2
\* schedule requests in a behaviour of the study of the history
MaxHistoryRequests == 12

(* Program constants *)

DefaultFullTurns == 6
DefaultSegments == 8
\* Date.now() + 10 * 60 * 1000, in minutes
SnoozeMinutes == 10
\* .slice(0, 10) of the history
HistoryCap == 10

-----------------------------------------------------------------------------
(* Numbers *)

RECURSIVE Pow2(_)
Pow2(n) == IF n = 0 THEN 1 ELSE 2 * Pow2(n - 1)

RECURSIVE BitLen(_)
BitLen(n) == IF n = 0 THEN 0 ELSE 1 + BitLen(n \div 2)

Abs(x) == IF x < 0 THEN -x ELSE x
Max(a, b) == IF a >= b THEN a ELSE b
Min(a, b) == IF a <= b THEN a ELSE b

\* grid units in one coarse unit (1/20 degree) and in one degree
Coarse == Pow2(FracBits)
Deg == 4 * 5 * Coarse
Turn == 360 * Deg

\* numbers below MantLimit in magnitude have at most MantBits bits
MantLimit == Pow2(MantBits)

\* a >= 0 rounded to the nearest multiple of u, ties to the even multiple
RoundToStep(a, u) ==
    IF 2 * (a % u) > u \/ (2 * (a % u) = u /\ (a \div u) % 2 = 1)
    THEN ((a \div u) + 1) * u
    ELSE (a \div u) * u

\* the nearest number with MantBits significant bits, ties to even
RoundF(v) ==
    IF Abs(v) < MantLimit THEN v
    ELSE IF v < 0 THEN 0 - RoundToStep(0 - v, Pow2(BitLen(0 - v) - MantBits))
    ELSE RoundToStep(v, Pow2(BitLen(v) - MantBits))

\* a + b and a - b as the machine computes them
fadd(a, b) == RoundF(a + b)
fsub(a, b) == RoundF(a - b)

\* a % b of JavaScript for b > 0: the remainder takes the sign of a (exact)
JsRem(a, b) == IF a >= 0 THEN a % b ELSE -((-a) % b)

\* Math.random() * x with Math.random() = j / RandDen, on the coarse grid
RandMul(j, x) == ((j * (x \div Coarse)) \div RandDen) * Coarse

-----------------------------------------------------------------------------
(* normalizeDeg, lines 86-89 *)

normalizeDeg(deg) ==
    LET m == JsRem(deg, Turn)
    IN  IF m < 0 THEN fadd(m, Turn) ELSE m

-----------------------------------------------------------------------------
(* The segments prop.  A segment is a label and an optional weight; the    *)
(* wheel of n segments carries the labels 10, 20, .. of DEFAULT_SEGMENTS   *)
(* and the weights of one of three patterns.                               *)

Seg(label, hasWeight, weight) ==
    [label |-> label, hasWeight |-> hasWeight, weight |-> weight]

WeightPats == {"default", "mixed", "zero"}

Segments(n, pat) ==
    [i \in 1..n |->
        CASE pat = "default" -> Seg(10 * i, FALSE, 0)
          [] pat = "mixed"   -> Seg(10 * i, i % 2 = 0, 1 + (i % 3))
          [] OTHER           -> Seg(10 * i, TRUE, 0)]

-----------------------------------------------------------------------------
(* pickWeightedIndex, lines 27-36.  j is the numerator of Math.random();   *)
(* r is kept in units of 1/RandDen so that it stays an integer.            *)

Weights(items) ==
    [i \in 1..Len(items) |->
        IF items[i].hasWeight THEN items[i].weight ELSE 1]

RECURSIVE SumTo(_, _)
SumTo(w, k) == IF k = 0 THEN 0 ELSE w[k] + SumTo(w, k - 1)

RECURSIVE PickWalk_Strict(_, _, _)
PickWalk_Strict(w, r, i) ==
    IF i >= Len(w) THEN Len(w) - 1
    ELSE LET r2 == r - w[i + 1] * RandDen
         IN  IF r2 < 0 THEN i ELSE PickWalk_Strict(w, r2, i + 1)

\* the for loop of lines 31-34, from index i with remainder r
RECURSIVE PickWalk(_, _, _)
PickWalk(w, r, i) ==
    IF i >= Len(w) THEN Len(w) - 1
    ELSE LET r2 == r - w[i + 1] * RandDen
         IN  IF r2 <= 0 THEN i ELSE PickWalk(w, r2, i + 1)

pickWeightedIndex(items, j) ==
    LET w == Weights(items)
        total == SumTo(w, Len(w))
    IN  PickWalk(w, j * (IF total <= 0 THEN 1 ELSE total), 0)

-----------------------------------------------------------------------------
(* segmentAngle (lines 75-78) and computeIndexFromRotation (lines 91-96)   *)

segmentAngle(n) == Turn \div Max(1, n)

computeIndexFromRotation_NoFlip(finalDeg, n) ==
    LET raw == normalizeDeg(finalDeg) \div segmentAngle(n)
    IN  Max(0, Min(n - 1, raw))

computeIndexFromRotation(finalDeg, n) ==
    LET pointerAngle == normalizeDeg(fsub(Turn, normalizeDeg(finalDeg)))
        raw == pointerAngle \div segmentAngle(n)
    IN  Max(0, Min(n - 1, raw))

-----------------------------------------------------------------------------
(* The target of a spin, lines 105-114 of handleSpin.  k is chosenIndex,   *)
(* j the numerator of the second Math.random().                            *)

margin(n) == Max(2 * Deg, (segmentAngle(n) * 15) \div 100)

randomOffsetWithin(n, j) ==
    fadd(margin(n), RandMul(j, Max(0, fsub(segmentAngle(n), 2 * margin(n)))))

targetWithinSeg(n, k, j) == fadd(k * segmentAngle(n), randomOffsetWithin(n, j))

targetDelta_NoExtraTurn(n, ft, k, j) ==
    fsub(ft * Turn, targetWithinSeg(n, k, j))

targetDelta(n, ft, k, j) ==
    fadd(ft * Turn, fsub(Turn, targetWithinSeg(n, k, j)))

SpinTarget(base, n, ft, k, j) == fadd(base, targetDelta(n, ft, k, j))

overshoot(n) == Min(8 * Deg, segmentAngle(n) \div 5)

-----------------------------------------------------------------------------
(* The component after construction, lines 57-73 *)

WheelInit(n, pat, ft, dis, cb) ==
    /\ segCount = n
    /\ weightPat = pat
    /\ fullTurns = ft
    /\ disabled = dis
    /\ hasOnSpinEnd = cb
    /\ isSpinning = FALSE
    /\ pendingSpinning = FALSE
    /\ rotation = 0
    /\ baseRotationDeg = 0
    /\ lastTickIndex = Null
    /\ selectedIndex = Null
    /\ anim = NoAnim
    /\ spinLog = << >>
    /\ endLog = << >>
    /\ doneLog = << >>
    /\ ticks = 0
    /\ requests = 0
    /\ vibrateErrors = 0

\* the reminder screen after construction (part_000, lines 52-61) on a
\* device of the given platform and notification settings
AppInit(os, auth, blocked) ==
    /\ startTime = Null
    /\ durationHours = Null
    /\ durationMinutes = Null
    /\ history = << >>
    /\ lastAlert = ""
    /\ now = FirstInstant
    /\ platform = os
    /\ authStatus = auth
    /\ channelBlocked = blocked
    /\ inForeground = TRUE
    /\ notifications = {}
    /\ nextId = 1
    /\ lastEvent = NoEvent

DefaultApp == AppInit("android", "AUTHORIZED", FALSE)

DefaultWheel ==
    WheelInit(DefaultSegments, "default", DefaultFullTurns, FALSE, TRUE)

-----------------------------------------------------------------------------
(* normalizeDeg on its own: every input of the bounded set, applied twice  *)

\* the smallest angles of the grid either side of 0 (far below the rounding
\* step near 360), and every half degree of MaxTurnsIn turns either way
AngleInputs ==
    ((0 - 2) .. 2)
        \cup { d * (Deg \div 2) :
                  d \in (0 - 720 * MaxTurnsIn) .. (720 * MaxTurnsIn) }

InitNormalize ==
    /\ DefaultWheel
    /\ DefaultApp
    /\ probe \in { [fn |-> "normalizeDeg", x |-> v, done |-> FALSE,
                     out |-> 0, again |-> 0] : v \in AngleInputs }

ApplyNormalize ==
    /\ probe.fn = "normalizeDeg"
    /\ ~probe.done
    /\ \E y \in { normalizeDeg(probe.x) } :
          probe' = [probe EXCEPT !.done = TRUE,
                                 !.out = y,
                                 !.again = normalizeDeg(y)]
    /\ UNCHANGED wheelVars
    /\ UNCHANGED appVars

NextNormalize == ApplyNormalize

SpecNormalize == InitNormalize /\ [][NextNormalize]_vars

\* C7: normalizeDeg is idempotent, its result lies in [0, 360) for every
\* input, positive, zero or negative, and differs from the input by a
\* multiple of 360.
C7_NormalizeIdempotentInRange ==
    (probe.fn = "normalizeDeg" /\ probe.done) =>
        /\ 0 <= probe.out
        /\ probe.out < Turn
        /\ probe.again = probe.out
        /\ (probe.out - probe.x) % Turn = 0

-----------------------------------------------------------------------------
(* computeIndexFromRotation on its own *)

\* segment counts whose slice width and 15% margin fall on the coarse grid
SegCounts == {1, 2, 3, 4, 5, 6, 8, 9, 10, 12, 90, 120, 180, 360}

IndexCounts == {1, 2, 3, 8, 9, 180, 360}

InitIndex ==
    /\ DefaultWheel
    /\ DefaultApp
    /\ probe \in { [fn |-> "computeIndexFromRotation", n |-> n, x |-> v,
                     done |-> FALSE, out |-> 0] :
                   n \in IndexCounts, v \in AngleInputs }

ApplyIndex ==
    /\ probe.fn = "computeIndexFromRotation"
    /\ ~probe.done
    /\ probe' = [probe EXCEPT
                    !.done = TRUE,
                    !.out = computeIndexFromRotation(probe.x, probe.n)]
    /\ UNCHANGED wheelVars
    /\ UNCHANGED appVars

NextIndex == ApplyIndex

SpecIndex == InitIndex /\ [][NextIndex]_vars

-----------------------------------------------------------------------------
(* pickWeightedIndex on its own *)

\* longest list of segments given to pickWeightedIndex
MaxItems == 3
\* largest weight of a segment
MaxWeight == 3

ItemChoices ==
    { Seg(0, FALSE, 0) } \cup { Seg(0, TRUE, w) : w \in 1 .. MaxWeight }

\* lists whose weights are positive or missing, and lists of zero weights
ItemLists ==
    UNION { [1 .. m -> ItemChoices] : m \in 1 .. MaxItems }
        \cup { [i \in 1 .. m |-> Seg(0, TRUE, 0)] : m \in 1 .. MaxItems }

AllPositive(w) == \A i \in 1 .. Len(w) : w[i] > 0

AllZero(w) == \A i \in 1 .. Len(w) : w[i] = 0

InitPick ==
    /\ DefaultWheel
    /\ DefaultApp
    /\ probe \in { [fn |-> "pickWeightedIndex", items |-> it, j |-> j,
                     done |-> FALSE, out |-> 0] :
                   it \in ItemLists, j \in 0 .. (RandDen - 1) }

ApplyPick ==
    /\ probe.fn = "pickWeightedIndex"
    /\ ~probe.done
    /\ probe' = [probe EXCEPT
                    !.done = TRUE,
                    !.out = pickWeightedIndex(probe.items, probe.j)]
    /\ UNCHANGED wheelVars
    /\ UNCHANGED appVars

NextPick == ApplyPick

SpecPick == InitPick /\ [][NextPick]_vars

\* C4: for positive weights (a missing weight counts 1) and a draw
\* r = random * total in [0, total), the index returned is in [0, N-1] and is
\* the smallest k whose cumulative weight w_0 + .. + w_k is >= r; the draws
\* mapped to k are those of (w_0 + .. + w_(k-1), w_0 + .. + w_k], an
\* interval of length w_k.  (Both sides are scaled by RandDen.)
C4_SmallestCumulativeIndex ==
    (probe.fn = "pickWeightedIndex" /\ probe.done
        /\ AllPositive(Weights(probe.items))) =>
        LET w == Weights(probe.items)
            n == Len(probe.items)
            r == probe.j * SumTo(w, n)
            k == probe.out
        IN  /\ k \in 0 .. (n - 1)
            /\ RandDen * SumTo(w, k + 1) >= r
            /\ \A i \in 0 .. (k - 1) : RandDen * SumTo(w, i + 1) < r
            /\ (k > 0 => RandDen * SumTo(w, k) < r)

\* a draw that falls exactly on the cumulative weight of index 1 of three
C4_Witness ==
    /\ probe.fn = "pickWeightedIndex"
    /\ probe.done
    /\ Len(probe.items) = 3
    /\ probe.out = 1
    /\ probe.j * SumTo(Weights(probe.items), 3)
          = RandDen * SumTo(Weights(probe.items), 2)

\* C17: when every segment weight is 0 (total 0), pickWeightedIndex returns
\* index 0 for every random draw.
C17_ZeroWeightsPickFirst ==
    (probe.fn = "pickWeightedIndex" /\ probe.done
        /\ AllZero(Weights(probe.items))) => probe.out = 0

-----------------------------------------------------------------------------
(* The target of a first spin (base rotation 0) on its own *)

FullTurnsChoices == {0, 1, 2, DefaultFullTurns}

InitTarget ==
    /\ DefaultWheel
    /\ DefaultApp
    /\ probe \in UNION {
           { [fn |-> "target", n |-> n, ft |-> ft, k |-> k, j |-> j,
              done |-> FALSE, offset |-> 0, delta |-> 0, target |-> 0,
              idx |-> 0] :
             ft \in FullTurnsChoices, k \in 0 .. (n - 1),
             j \in 0 .. (RandDen - 1) } : n \in SegCounts }

ApplyTarget ==
    /\ probe.fn = "target"
    /\ ~probe.done
    /\ \E t \in { SpinTarget(0, probe.n, probe.ft, probe.k, probe.j) } :
          probe' = [probe EXCEPT
                       !.done = TRUE,
                       !.offset = randomOffsetWithin(probe.n, probe.j),
                       !.delta = targetDelta(probe.n, probe.ft, probe.k,
                                             probe.j),
                       !.target = t,
                       !.idx = computeIndexFromRotation(t, probe.n)]
    /\ UNCHANGED wheelVars
    /\ UNCHANGED appVars

NextTarget == ApplyTarget

SpecTarget == InitTarget /\ [][NextTarget]_vars

\* C5: on a first spin (base rotation 0), for every segment count, chosen
\* index k, number of full turns and offset drawn, computeIndexFromRotation
\* of the target built in handleSpin is k.
C5_TargetRoundTrip ==
    (probe.fn = "target" /\ probe.done) => probe.idx = probe.k

\* C9: the delta added to the base rotation is at least (fullTurns - 1)
\* turns; with fullTurns = 6 it is at least 5 * 360.
C9_DeltaAtLeastTurnsMinusOne ==
    (probe.fn = "target" /\ probe.done) =>
        /\ probe.delta >= (probe.ft - 1) * Turn
        /\ (probe.ft = 6 => probe.delta >= 5 * 360 * Deg)

\* C18: for every segment count N >= 1 the offset drawn in handleSpin lies
\* inside the slice, at least margin = max(2, 0.15 * segmentAngle) away
\* from both edges: margin <= offset <= segmentAngle - margin.
C18_OffsetInsideSlice ==
    (probe.fn = "target" /\ probe.done) =>
        /\ margin(probe.n) <= probe.offset
        /\ probe.offset <= segmentAngle(probe.n) - margin(probe.n)

\* the largest residual: the last index of many narrow slices, where the
\* delta falls short of fullTurns whole turns
C9_Witness ==
    /\ probe.fn = "target"
    /\ probe.done
    /\ probe.ft = DefaultFullTurns
    /\ probe.k = probe.n - 1
    /\ probe.delta < probe.ft * Turn

-----------------------------------------------------------------------------
(* The rotation listener, lines 236-250: what one value delivered to it    *)
(* leaves in lastTickIndexRef and whether it fires a tick (the vibration   *)
(* and the pointer wiggle).                                                *)

\* lines 239-249, once idx is computed
ListenerAt_TickOnSeed(idx, last) ==
    IF last = Null \/ idx # last
    THEN [last |-> idx, fired |-> 1]
    ELSE [last |-> last, fired |-> 0]

ListenerAt_NoStore(idx, last) ==
    IF last = Null THEN [last |-> idx, fired |-> 0]
    ELSE IF idx # last THEN [last |-> last, fired |-> 1]
    ELSE [last |-> last, fired |-> 0]

ListenerAt(idx, last) ==
    IF last = Null THEN [last |-> idx, fired |-> 0]
    ELSE IF idx # last THEN [last |-> idx, fired |-> 1]
    ELSE [last |-> last, fired |-> 0]

Listener(value, last, n) ==
    ListenerAt(computeIndexFromRotation(value, n), last)

\* a Vibration.vibrate call (lines 137 and 246) returns or throws
VibrateOutcomes(called) ==
    IF called /\ vibrateErrors < MaxVibrateErrors THEN {FALSE, TRUE}
    ELSE {FALSE}

ThrowCount(throws) == IF throws THEN 1 ELSE 0

\* whether the statements that follow try { Vibration.vibrate(..) } catch {}
\* run, lines 136-138 and 245-247
AfterVibrate_NoCatch(throws) == ~throws

AfterVibrate(throws) == TRUE

-----------------------------------------------------------------------------
(* The listener on its own: a rising stream 0, step, 2 step, .. up to      *)
(* fullTurns * 360 + 180 on the wheel of 8 segments, lastTickIndexRef      *)
(* unset at the start.                                                     *)

\* step sizes of the stream, in degrees, all below one slice of 45
StreamSteps == {1, 7, 44}

StreamEnd(ft) == fadd(ft * Turn, 180 * Deg)

InitTick ==
    /\ \E ft \in FullTurnsChoices :
          WheelInit(DefaultSegments, "default", ft, FALSE, TRUE)
    /\ DefaultApp
    /\ probe \in { [fn |-> "listener", step |-> d * Deg, next |-> 0,
                     finished |-> FALSE, maxPerUpdate |-> 0] :
                   d \in StreamSteps }

FeedListener ==
    /\ probe.fn = "listener"
    /\ ~probe.finished
    /\ \E l \in { Listener(probe.next, lastTickIndex, segCount) } :
          /\ rotation' = probe.next
          /\ lastTickIndex' = l.last
          /\ ticks' = ticks + l.fired
          /\ \E throws \in VibrateOutcomes(l.fired = 1) :
                vibrateErrors' = vibrateErrors + ThrowCount(throws)
          /\ probe' = [probe EXCEPT
                !.next = Min(fadd(probe.next, probe.step),
                             StreamEnd(fullTurns)),
                !.finished = (probe.next = StreamEnd(fullTurns)),
                !.maxPerUpdate = Max(probe.maxPerUpdate, l.fired)]
    /\ UNCHANGED << segCount, weightPat, fullTurns, disabled, hasOnSpinEnd,
                    isSpinning, pendingSpinning, baseRotationDeg,
                    selectedIndex, anim, spinLog, endLog, doneLog,
                    requests >>
    /\ UNCHANGED appVars

NextTick == FeedListener

SpecTick == InitTick /\ [][NextTick]_vars

\* C10: on 8 equal segments, with the last tick index unset at the start, a
\* rising stream from 0 to fullTurns * 360 + 180 in steps below one slice
\* fires exactly floor((fullTurns * 360 + 180) / 45) ticks, and no update
\* fires more than one.
C10_TickCount ==
    (probe.fn = "listener") =>
        /\ probe.maxPerUpdate <= 1
        /\ (probe.finished =>
               ticks = StreamEnd(fullTurns) \div (45 * Deg))

\* C19: on every rotation update once the last observed index is set, the
\* listener fires exactly one tick and stores the new index if and only if
\* computeIndexFromRotation of the value differs from the last observed
\* index; otherwise no tick fires and the last observed index stays.
C19_TickIffIndexChanges ==
    [][(probe.fn = "listener" /\ lastTickIndex # Null) =>
         IF computeIndexFromRotation(rotation', segCount) # lastTickIndex
         THEN /\ ticks' = ticks + 1
              /\ lastTickIndex' = computeIndexFromRotation(rotation', segCount)
         ELSE /\ ticks' = ticks
              /\ lastTickIndex' = lastTickIndex]_vars

\* the stream in steps of 7 degrees at 56: ticks fired at 7 and at 49, and
\* the update at 56 stayed in slice 6
C19_Witness ==
    /\ probe.fn = "listener"
    /\ probe.step = 7 * Deg
    /\ rotation = 56 * Deg
    /\ lastTickIndex = 6
    /\ ticks = 2

\* the stream of the default six turns in steps of one degree, fed to its end
C10_Witness ==
    /\ probe.fn = "listener"
    /\ probe.finished
    /\ probe.step = Deg
    /\ fullTurns = DefaultFullTurns
    /\ rotation = 2340 * Deg
    /\ ticks = 52

-----------------------------------------------------------------------------
(* The spinner as a state machine.                                         *)
(*                                                                         *)
(* The animation driver (Animated.sequence of two Animated.timing on       *)
(* rotation, lines 115-128) is modelled by what it does to the component:  *)
(* it delivers values of the running timing to the listener, each timing   *)
(* moving from the current value to its toValue, it starts the second      *)
(* timing when the first has reached its toValue, it calls the end         *)
(* callback with finished true when the second has reached the target, and *)
(* with finished false when the animation is stopped.  Starting an         *)
(* animation on a value that is being animated stops the running one       *)
(* first.                                                                  *)

\* the values Math.random() takes in a spin: least, middle and greatest
SpinDraws == {0, RandDen \div 2, RandDen - 1}

\* the props the component is mounted with
Configs ==
    { [n |-> 8, pat |-> "default", dis |-> FALSE, cb |-> TRUE],
      [n |-> 8, pat |-> "mixed", dis |-> FALSE, cb |-> TRUE],
      [n |-> 3, pat |-> "mixed", dis |-> FALSE, cb |-> TRUE],
      [n |-> 1, pat |-> "default", dis |-> FALSE, cb |-> TRUE],
      [n |-> 8, pat |-> "default", dis |-> FALSE, cb |-> FALSE],
      [n |-> 8, pat |-> "default", dis |-> TRUE, cb |-> TRUE],
      [n |-> 0, pat |-> "default", dis |-> FALSE, cb |-> TRUE] }

Init ==
    /\ \E c \in Configs : WheelInit(c.n, c.pat, DefaultFullTurns, c.dis, c.cb)
    /\ DefaultApp
    /\ probe = NoProbe

Running == anim.phase # "none"

\* toValue of the timing in progress, lines 117 and 123
TimingToValue_Undershoot(phase, target, n) ==
    IF phase = "overshoot" THEN fadd(target, overshoot(n))
    ELSE fsub(target, overshoot(n))

TimingToValue(phase, target, n) ==
    IF phase = "overshoot" THEN fadd(target, overshoot(n)) ELSE target

\* the values a frame of a timing from cur to to may deliver next: a stride
\* of FrameTurns turns forward (half the overshoot backward), or the end
FrameTurns == 3

FrameValues(cur, to, n) ==
    IF cur < to
    THEN { Min(fadd(cur, FrameTurns * Turn), to), to }
    ELSE { Max(fsub(cur, overshoot(n) \div 2), to), to }

\* whether the end callback goes on to the completion haptic, the confetti
\* and the highlight pulse, lines 135-141
CompletionEffects_Always(finished) == TRUE

CompletionEffects(finished) == finished

\* whether the end callback calls onSpinEnd, lines 135-139
CallsOnSpinEnd_Always(finished) == hasOnSpinEnd

CallsOnSpinEnd(finished) == finished /\ hasOnSpinEnd

\* the end callback, lines 128-134, once normalized is computed: the new
\* base rotation (also given to rotation.setValue, which runs the
\* listener) and the index selected
CompletionAt_NoFlip(normalized, last, n) ==
    [base |-> normalized,
     tick |-> Listener(normalized, last, n),
     idx |-> computeIndexFromRotation_NoFlip(normalized, n)]

CompletionAt(normalized, last, n) ==
    [base |-> normalized,
     tick |-> Listener(normalized, last, n),
     idx |-> computeIndexFromRotation(normalized, n)]

Completion_Unnormalized(t, last, n) == CompletionAt(t, last, n)

Completion(t, last, n) == CompletionAt(normalizeDeg(t), last, n)

\* the guard of handleSpin, line 99: whether the call returns at once
Refuses_DisabledIgnored(spinning, n, dis) == spinning \/ n = 0

Refuses_EmptyIgnored(spinning, n, dis) == spinning \/ dis

Refuses(spinning, n, dis) == spinning \/ n = 0 \/ dis

\* handleSpin past its guard, lines 100-128, with the two random draws.
\* When an animation is running, start() stops it first, and its end
\* callback runs with finished false before the new animation begins.
StartSpin(j1, j2) ==
    \E seed \in { computeIndexFromRotation(baseRotationDeg, segCount) },
       chosen \in { pickWeightedIndex(Segments(segCount, weightPat), j1) } :
      \E target \in { SpinTarget(baseRotationDeg, segCount, fullTurns,
                                 chosen, j2) } :
        /\ spinLog' = Append(spinLog,
              [chosen |-> chosen, base |-> baseRotationDeg,
               target |-> target, overlapped |-> Running])
        /\ anim' = [phase |-> "overshoot", spin |-> Len(spinLog) + 1,
                    target |-> target]
        /\ IF Running
           THEN \E cb \in { Completion(anim.target, seed, segCount) } :
                  /\ baseRotationDeg' = cb.base
                  /\ rotation' = cb.base
                  /\ lastTickIndex' = cb.tick.last
                  /\ ticks' = ticks + cb.tick.fired
                  /\ \E throws \in VibrateOutcomes(cb.tick.fired = 1) :
                        vibrateErrors' = vibrateErrors + ThrowCount(throws)
                  /\ pendingSpinning' = FALSE
                  /\ selectedIndex' = cb.idx
                  /\ doneLog' = Append(doneLog,
                        [spin |-> anim.spin, finished |-> FALSE,
                         idx |-> cb.idx,
                         effects |-> CompletionEffects(FALSE)])
           ELSE /\ lastTickIndex' = seed
                /\ pendingSpinning' = TRUE
                /\ UNCHANGED << baseRotationDeg, rotation, ticks,
                                vibrateErrors, selectedIndex, doneLog >>
        /\ UNCHANGED << segCount, weightPat, fullTurns, disabled,
                        hasOnSpinEnd, isSpinning, endLog, probe >>

\* a press of the hub: the Pressable is disabled while the render shows
\* isSpinning or disabled (line 429); handleSpin returns at once on
\* isSpinning, no segments, or disabled (line 99)
Press ==
    /\ requests < MaxRequests
    /\ Len(spinLog) < MaxSpins
    /\ requests' = requests + 1
    /\ IF Refuses(isSpinning, segCount, disabled)
       THEN UNCHANGED << segCount, weightPat, fullTurns, disabled,
                         hasOnSpinEnd, isSpinning, pendingSpinning, rotation,
                         baseRotationDeg, lastTickIndex, selectedIndex, anim,
                         spinLog, endLog, doneLog, ticks, vibrateErrors,
                         probe >>
       ELSE \E j1 \in SpinDraws, j2 \in SpinDraws : StartSpin(j1, j2)
    /\ UNCHANGED appVars

\* the component renders again with the queued isSpinning
Render ==
    /\ isSpinning # pendingSpinning
    /\ isSpinning' = pendingSpinning
    /\ UNCHANGED << segCount, weightPat, fullTurns, disabled, hasOnSpinEnd,
                    pendingSpinning, rotation, baseRotationDeg,
                    lastTickIndex, selectedIndex, anim, spinLog, endLog,
                    doneLog, ticks, requests, vibrateErrors, probe >>
    /\ UNCHANGED appVars

\* the driver delivers the next value of the timing in progress
Frame ==
    /\ Running
    /\ \E to \in { TimingToValue(anim.phase, anim.target, segCount) } :
          /\ rotation # to
          /\ \E v \in FrameValues(rotation, to, segCount) :
                \E l \in { Listener(v, lastTickIndex, segCount) } :
                  /\ rotation' = v
                  /\ lastTickIndex' = l.last
                  /\ ticks' = ticks + l.fired
                  /\ \E throws \in VibrateOutcomes(l.fired = 1) :
                        vibrateErrors' = vibrateErrors + ThrowCount(throws)
                  /\ anim' = IF anim.phase = "overshoot" /\ v = to
                             THEN [anim EXCEPT !.phase = "settle"]
                             ELSE anim
    /\ UNCHANGED << segCount, weightPat, fullTurns, disabled, hasOnSpinEnd,
                    isSpinning, pendingSpinning, baseRotationDeg,
                    selectedIndex, spinLog, endLog, doneLog, requests,
                    probe >>
    /\ UNCHANGED appVars

\* the end callback of the sequence, lines 128-143
Finish(finished) ==
    \E cb \in { Completion(anim.target, lastTickIndex, segCount) } :
      \E tickThrows \in VibrateOutcomes(cb.tick.fired = 1),
         endThrows \in VibrateOutcomes(CompletionEffects(finished)) :
        /\ baseRotationDeg' = cb.base
        /\ rotation' = cb.base
        /\ lastTickIndex' = cb.tick.last
        /\ ticks' = ticks + cb.tick.fired
        /\ vibrateErrors' = vibrateErrors + ThrowCount(tickThrows)
                                + ThrowCount(endThrows)
        /\ pendingSpinning' = FALSE
        /\ selectedIndex' = cb.idx
        /\ endLog' = IF CallsOnSpinEnd(finished) /\ AfterVibrate(endThrows)
                     THEN Append(endLog,
                            [label |-> Segments(segCount, weightPat)[cb.idx + 1].label,
                             index |-> cb.idx, spin |-> anim.spin])
                     ELSE endLog
        /\ doneLog' = Append(doneLog,
              [spin |-> anim.spin, finished |-> finished, idx |-> cb.idx,
               effects |-> CompletionEffects(finished)])
        /\ anim' = NoAnim
        /\ UNCHANGED << segCount, weightPat, fullTurns, disabled,
                        hasOnSpinEnd, isSpinning, spinLog, requests, probe >>
        /\ UNCHANGED appVars

\* the second timing has reached the target: the driver reports completion
Complete ==
    /\ anim.phase = "settle"
    /\ rotation = anim.target
    /\ Finish(TRUE)

\* the driver stops the animation before its end
Interrupt ==
    /\ Running
    /\ Finish(FALSE)

Next == Press \/ Render \/ Frame \/ Complete \/ Interrupt

Spec == Init /\ [][Next]_vars

-----------------------------------------------------------------------------
(* Properties of the spinner *)

\* the spins whose end callback ran with finished true
FinishedSpins ==
    { doneLog[d].spin : d \in { x \in 1 .. Len(doneLog) : doneLog[x].finished } }

\* every spin so far ran alone and to its end
OnlyCompletedSpins ==
    /\ \A d \in 1 .. Len(doneLog) : doneLog[d].finished
    /\ \A i \in 1 .. Len(spinLog) : ~spinLog[i].overlapped

\* C1: after any sequence of completed spins, each starting from the
\* normalized resting rotation the previous one left, the index passed to
\* onSpinEnd and stored in selectedIndex at completion is the index that
\* pickWeightedIndex chose when that spin started.
C1_ReportedIndexIsChosen ==
    OnlyCompletedSpins =>
        /\ \A e \in 1 .. Len(endLog) :
              endLog[e].index = spinLog[endLog[e].spin].chosen
        /\ \A d \in 1 .. Len(doneLog) :
              doneLog[d].idx = spinLog[doneLog[d].spin].chosen

\* C2: at most one spin is in flight: a handleSpin request made while a
\* spin is in flight (also one handled before the component has rendered
\* isSpinning = true) starts no animation, and onSpinEnd fires only for
\* the request that found the wheel at rest.
C2_OneSpinInFlight ==
    /\ \A i \in 1 .. Len(spinLog) : ~spinLog[i].overlapped
    /\ \A e \in 1 .. Len(endLog) : ~spinLog[endLog[e].spin].overlapped

\* C3: onSpinEnd is called exactly once for every spin the driver reports
\* finished, never for a spin still in flight or never started, and with
\* segments[idx] and idx, idx being the index the end callback computed.
C3_OnSpinEndOncePerFinishedSpin ==
    hasOnSpinEnd =>
        /\ \A sp \in FinishedSpins :
              Cardinality({ e \in 1 .. Len(endLog) : endLog[e].spin = sp }) = 1
        /\ \A e \in 1 .. Len(endLog) :
              /\ endLog[e].spin \in 1 .. Len(spinLog)
              /\ endLog[e].spin \in FinishedSpins
              /\ \E d \in 1 .. Len(doneLog) :
                    /\ doneLog[d].spin = endLog[e].spin
                    /\ doneLog[d].idx = endLog[e].index
              /\ endLog[e].label =
                    Segments(segCount, weightPat)[endLog[e].index + 1].label
        /\ Running =>
              \A e \in 1 .. Len(endLog) : endLog[e].spin # anim.spin

\* one spin stopped before its end and one run to its end: one call
C3_Witness ==
    /\ hasOnSpinEnd
    /\ Len(doneLog) = 2
    /\ ~doneLog[1].finished
    /\ doneLog[2].finished
    /\ Len(endLog) = 1
    /\ endLog[1].spin = 2

\* a step of the driver within one spin
SameSpinStep ==
    /\ Running
    /\ anim'.phase # "none"
    /\ anim'.spin = anim.spin

-----------------------------------------------------------------------------
(* The start of a spin and the refused requests *)

\* the driver delivers the first value of a spin: the timing towards
\* target + overshoot has not moved the wheel off its resting rotation yet
FirstValueStep ==
    /\ SameSpinStep
    /\ anim.phase = "overshoot"
    /\ rotation = baseRotationDeg
    /\ rotation' # rotation

\* C11: the first rotation value the listener observes after a spin starts
\* fires no tick, whatever slice it falls in: it only seeds the last
\* observed index.
C11_FirstValueNeverTicks ==
    [][FirstValueStep =>
         /\ ticks' = ticks
         /\ lastTickIndex' = computeIndexFromRotation(rotation', segCount)]_vars

\* nothing of the spinner has moved from its state after construction
Untouched ==
    /\ ~isSpinning
    /\ ~pendingSpinning
    /\ anim = NoAnim
    /\ spinLog = << >>
    /\ endLog = << >>
    /\ doneLog = << >>
    /\ rotation = 0
    /\ baseRotationDeg = 0
    /\ selectedIndex = Null
    /\ lastTickIndex = Null
    /\ ticks = 0

\* C12: while disabled is true a spin request changes nothing: isSpinning
\* stays false, nothing is selected or computed, no animation starts and
\* onSpinEnd never fires.
C12_DisabledRequestChangesNothing ==
    disabled => Untouched

\* every request allowed was made on the disabled wheel
C12_Witness ==
    /\ disabled
    /\ requests = MaxRequests

\* C13: a spin request with an empty segment list is refused at once: the
\* spinner never enters Spinning, base rotation, selectedIndex and last tick
\* index are unchanged and no onSpinEnd fires.
C13_EmptyRequestRefused ==
    segCount = 0 =>
        /\ ~isSpinning /\ ~pendingSpinning /\ ~Running
        /\ baseRotationDeg = 0
        /\ selectedIndex = Null
        /\ lastTickIndex = Null
        /\ spinLog = << >>
        /\ endLog = << >>

\* requests were made on the wheel without segments
C13_Witness ==
    /\ segCount = 0
    /\ ~disabled
    /\ requests >= 2

-----------------------------------------------------------------------------
(* The end of a spin *)

\* an end callback ran in this step
CompletionStep == Len(doneLog') = Len(doneLog) + 1

\* an end callback ran in this step with finished true
FinishedStep == CompletionStep /\ doneLog'[Len(doneLog')].finished

\* C14: a Vibration.vibrate call that throws changes nothing of the spinner:
\* at completion the spinner is Idle again (isSpinning false, base rotation
\* normalized, selectedIndex set) and onSpinEnd is called; on a tick the
\* last observed index is updated.
C14_HapticFailureSwallowed ==
    [][vibrateErrors' > vibrateErrors =>
         /\ (ticks' > ticks =>
                lastTickIndex' = computeIndexFromRotation(rotation', segCount))
         /\ (FinishedStep =>
                /\ anim' = NoAnim
                /\ pendingSpinning' = FALSE
                /\ baseRotationDeg' = normalizeDeg(anim.target)
                /\ baseRotationDeg' \in 0 .. (Turn - 1)
                /\ selectedIndex' =
                      computeIndexFromRotation(baseRotationDeg', segCount)
                /\ (hasOnSpinEnd =>
                       /\ Len(endLog') = Len(endLog) + 1
                       /\ endLog'[Len(endLog')].spin = anim.spin))]_vars

\* on the wheel of one slice no tick ever fires, so the call that threw is
\* the one of the end callback, and onSpinEnd was called all the same
C14_Witness ==
    /\ segCount = 1
    /\ ticks = 0
    /\ vibrateErrors = 1
    /\ Len(doneLog) = 1
    /\ doneLog[1].finished
    /\ Len(endLog) = 1

\* C20: whenever no spin is in flight the base rotation is in [0, 360); an
\* end callback sets it to normalizeDeg(target), a whole number of turns
\* from the target, and sets isSpinning to false; a request made on the
\* wheel at rest, once that is rendered, is accepted.
C20_RestingBaseNormalized ==
    /\ [](~Running => baseRotationDeg \in 0 .. (Turn - 1))
    /\ [][CompletionStep =>
            /\ baseRotationDeg' = normalizeDeg(anim.target)
            /\ (anim.target - baseRotationDeg') % Turn = 0
            /\ pendingSpinning' = FALSE]_vars
    /\ [][(requests' = requests + 1 /\ ~Running /\ ~isSpinning
              /\ ~disabled /\ segCount > 0) =>
            /\ Len(spinLog') = Len(spinLog) + 1
            /\ anim'.phase = "overshoot"]_vars

\* a second spin accepted after the first completed, and completed in turn,
\* the wheel resting off zero
C20_Witness ==
    /\ ~Running
    /\ Len(doneLog) = 2
    /\ doneLog[1].finished
    /\ doneLog[2].finished
    /\ ~spinLog[2].overlapped
    /\ baseRotationDeg > 0

\* C24: in every state after an end callback selectedIndex is
\* computeIndexFromRotation of the base rotation, and the index an end
\* callback passes to onSpinEnd is the selectedIndex it sets: the slice
\* under the pointer at the resting rotation.
C24_SelectedIsSliceAtRest ==
    /\ [](Len(doneLog) > 0 =>
            /\ selectedIndex =
                  computeIndexFromRotation(baseRotationDeg, segCount)
            /\ selectedIndex = doneLog[Len(doneLog)].idx)
    /\ [][Len(endLog') = Len(endLog) + 1 =>
            /\ endLog'[Len(endLog')].index = selectedIndex'
            /\ endLog'[Len(endLog')].index =
                  computeIndexFromRotation(baseRotationDeg', segCount)]_vars

\* a finished spin of the three-slice wheel resting on a slice other than
\* the first, reported with that index
C24_Witness ==
    /\ segCount = 3
    /\ ~Running
    /\ Len(endLog) = 1
    /\ selectedIndex > 0
    /\ endLog[1].index = selectedIndex
    /\ selectedIndex = computeIndexFromRotation(baseRotationDeg, segCount)

\* a step in which the end callback ran with finished false
InterruptedStep == CompletionStep /\ ~doneLog'[Len(doneLog')].finished

\* C25: an end callback with finished false still sets isSpinning to false,
\* the base rotation to the normalized target and selectedIndex, but calls
\* no onSpinEnd and starts no completion haptic, confetti or highlight; a
\* request made afterwards on the wheel at rest is accepted.
C25_InterruptedSpinEndsQuietly ==
    /\ [][InterruptedStep =>
            /\ pendingSpinning' = FALSE
            /\ baseRotationDeg' = normalizeDeg(anim.target)
            /\ selectedIndex' =
                  computeIndexFromRotation(baseRotationDeg', segCount)
            /\ endLog' = endLog
            /\ ~doneLog'[Len(doneLog')].effects]_vars
    /\ [][(requests' = requests + 1 /\ ~Running /\ ~isSpinning
              /\ Len(doneLog) > 0 /\ ~doneLog[Len(doneLog)].finished) =>
            /\ Len(spinLog') = Len(spinLog) + 1
            /\ anim'.phase = "overshoot"
            /\ anim'.spin = Len(spinLog')]_vars

\* a spin stopped before its end, unreported, and the next request accepted
C25_Witness ==
    /\ hasOnSpinEnd
    /\ Len(doneLog) = 1
    /\ ~doneLog[1].finished
    /\ ~doneLog[1].effects
    /\ endLog = << >>
    /\ Len(spinLog) = 2
    /\ ~spinLog[2].overlapped
    /\ Running

-----------------------------------------------------------------------------
(* The reminder screen (src/unnamed/part_000) and the background handler   *)
(* (src/index.js).                                                         *)
(*                                                                         *)
(* Time.  An instant is a number of minutes; a Date holds an instant, and  *)
(* getMinutes and setMinutes work on local time, which is TzOffset minutes *)
(* from UTC throughout (no daylight-saving change within the window).      *)
(* notifee is modelled by what the app sees of it: the set of              *)
(* notifications it holds, each pending until its trigger instant and      *)
(* shown after, and the settings of the device.                            *)

getMinutes(d) == (d + TzOffset) % 60

setMinutes(d, m) == (d - getMinutes(d)) + m

\* lines 65-71; a text is digits only (lines 165 and 171), Null when empty
totalDurationMinutes_NoClamp(hours, mins) ==
    LET h == IF hours = Null THEN 0 ELSE hours
        m == IF mins = Null THEN 0 ELSE mins
    IN  Max(0, h) * 60 + Max(0, m)

totalDurationMinutes(hours, mins) ==
    LET h == IF hours = Null THEN 0 ELSE hours
        m == IF mins = Null THEN 0 ELSE mins
    IN  Max(0, h) * 60 + Max(0, Min(59, m))

\* lines 73-78
computedEndTime(st, total) ==
    IF st = Null \/ total <= 0 THEN Null
    ELSE setMinutes(st, getMinutes(st) + total)

AuthStatuses == {"AUTHORIZED", "DENIED"}

Platforms == {"android", "ios"}

\* the action buttons are given under the android key only
ReminderActions(os) == IF os = "android" THEN {"snooze", "dismiss"} ELSE {}

\* what createTriggerNotification adds to the notifications held
Reminder(id, title, body, at, os) ==
    [id |-> id, title |-> title, body |-> body, at |-> at,
     actions |-> ReminderActions(os), shown |-> FALSE]

cancelNotification(held, id) == { x \in held : x.id # id }

Event(kind, handler, id, at, body) ==
    [n |-> lastEvent.n + 1, kind |-> kind, handler |-> handler, id |-> id,
     at |-> at, body |-> body]

\* the texts typed in the duration fields, the presets pressed, the steps
\* of the clock and of the -15m and +15m buttons
HourInputs == {1}
MinuteInputs == {5, 75}
PresetChoices == {60}
ClockSteps == {5}
BumpChoices == {0 - 15}

\* the variables of the screen a handler of the form leaves alone
deviceVars == << now, platform, authStatus, channelBlocked, inForeground >>

\* the devices the app is started on
Devices ==
    { [os |-> "android", blocked |-> FALSE],
      [os |-> "android", blocked |-> TRUE],
      [os |-> "ios", blocked |-> FALSE] }

InitApp ==
    /\ DefaultWheel
    /\ probe = NoProbe
    /\ \E d \in Devices : AppInit(d.os, "AUTHORIZED", d.blocked)

\* the effect run once the screen is mounted, lines 85-87
MountEffect ==
    /\ startTime = Null
    /\ startTime' = now
    /\ UNCHANGED << durationHours, durationMinutes, history, lastAlert,
                    notifications, nextId, lastEvent >>
    /\ UNCHANGED deviceVars
    /\ UNCHANGED wheelVars
    /\ UNCHANGED probe

\* handlePickNowIfNeeded, lines 158-160
handlePickNowIfNeeded == startTime' = IF startTime = Null THEN now ELSE startTime

\* handleChangeHours and handleChangeMinutes, lines 162-173
handleChangeHours ==
    /\ inForeground
    /\ handlePickNowIfNeeded
    /\ \E v \in HourInputs : durationHours' = v
    /\ UNCHANGED << durationMinutes, history, lastAlert, notifications,
                    nextId, lastEvent >>
    /\ UNCHANGED deviceVars
    /\ UNCHANGED wheelVars
    /\ UNCHANGED probe

handleChangeMinutes ==
    /\ inForeground
    /\ handlePickNowIfNeeded
    /\ \E v \in MinuteInputs : durationMinutes' = v
    /\ UNCHANGED << durationHours, history, lastAlert, notifications,
                    nextId, lastEvent >>
    /\ UNCHANGED deviceVars
    /\ UNCHANGED wheelVars
    /\ UNCHANGED probe

\* setPresetDuration, lines 175-181
setPresetDuration ==
    /\ inForeground
    /\ handlePickNowIfNeeded
    /\ \E totalMinutes \in PresetChoices :
          /\ durationHours' = totalMinutes \div 60
          /\ durationMinutes' = totalMinutes % 60
    /\ UNCHANGED << history, lastAlert, notifications, nextId, lastEvent >>
    /\ UNCHANGED deviceVars
    /\ UNCHANGED wheelVars
    /\ UNCHANGED probe

\* the Now button, lines 431-435
PickNow ==
    /\ inForeground
    /\ startTime' = now
    /\ UNCHANGED << durationHours, durationMinutes, history, lastAlert,
                    notifications, nextId, lastEvent >>
    /\ UNCHANGED deviceVars
    /\ UNCHANGED wheelVars
    /\ UNCHANGED probe

\* bumpStartTimeByMinutes, lines 183-188, kept within the window
bumpStartTimeByMinutes ==
    /\ inForeground
    /\ \E delta \in BumpChoices :
         \E base \in { IF startTime = Null THEN now ELSE startTime } :
           \E next \in { setMinutes(base, getMinutes(base) + delta) } :
              /\ next >= FirstInstant
              /\ next <= LastInstant
              /\ startTime' = next
    /\ UNCHANGED << durationHours, durationMinutes, history, lastAlert,
                    notifications, nextId, lastEvent >>
    /\ UNCHANGED deviceVars
    /\ UNCHANGED wheelVars
    /\ UNCHANGED probe

\* the Clear button of the history card, lines 502-506
ClearHistory ==
    /\ inForeground
    /\ Len(history) > 0
    /\ history' = << >>
    /\ UNCHANGED << startTime, durationHours, durationMinutes, lastAlert,
                    notifications, nextId, lastEvent >>
    /\ UNCHANGED deviceVars
    /\ UNCHANGED wheelVars
    /\ UNCHANGED probe

\* scheduleNotification(when), lines 273-354; created tells whether
\* createTriggerNotification resolves or rejects (the caller's catch, line
\* 268, then shows the Error alert)
scheduleNotification(when, created) ==
    IF platform = "android" /\ authStatus = "DENIED"
    THEN /\ lastAlert' = "Notifications disabled"
         /\ lastEvent' = Event("schedule", "app", Null, when, "")
         /\ UNCHANGED << notifications, nextId >>
    ELSE IF platform = "android" /\ channelBlocked
    THEN /\ lastAlert' = "Channel blocked"
         /\ lastEvent' = Event("schedule", "app", Null, when, "")
         /\ UNCHANGED << notifications, nextId >>
    ELSE IF created
    THEN /\ notifications' = notifications \cup
               { Reminder(nextId, "Work session complete",
                          "Time's up. Ready to wrap?", when, platform) }
         /\ nextId' = nextId + 1
         /\ lastAlert' = "Scheduled"
         /\ lastEvent' = Event("schedule", "app", nextId, when, "")
    ELSE /\ lastAlert' = "Error"
         /\ lastEvent' = Event("schedule", "app", Null, when, "")
         /\ UNCHANGED << notifications, nextId >>

\* whether the end time is refused as passed, line 257
EndTimePassed_Never(endLocal, t) == FALSE

EndTimePassed(endLocal, t) == endLocal <= t

\* the history with a new entry in front, lines 265-267
PushHistory_Uncapped(entry, h) == << entry >> \o h

PushHistory_Dropped(entry, h) == h

PushHistory(entry, h) ==
    SubSeq(<< entry >> \o h, 1, Min(HistoryCap, Len(h) + 1))

\* handleSchedule, lines 248-271.  The handler is modelled as it is written:
\* the button that calls it is disabled while computedEndTime is null (line
\* 524), of which the handler makes no use.
ScheduleRequest ==
    /\ inForeground
    /\ \E baseStart \in { IF startTime = Null THEN now ELSE startTime },
          total \in { totalDurationMinutes(durationHours, durationMinutes) } :
        /\ startTime' = baseStart
        /\ IF total <= 0
           THEN /\ lastAlert' = "Incomplete"
                /\ lastEvent' = Event("refused", "app", Null, Null, "")
                /\ UNCHANGED << history, notifications, nextId >>
           ELSE \E endLocal \in { setMinutes(baseStart,
                                            getMinutes(baseStart) + total) } :
                  IF EndTimePassed(endLocal, now)
                  THEN /\ lastAlert' = "End time passed"
                       /\ lastEvent' = Event("refused", "app", Null, endLocal, "")
                       /\ UNCHANGED << history, notifications, nextId >>
                  ELSE /\ history' =
                            PushHistory([start |-> baseStart,
                                         end |-> endLocal], history)
                       /\ \E created \in BOOLEAN :
                             scheduleNotification(endLocal, created)
    /\ UNCHANGED << durationHours, durationMinutes >>
    /\ UNCHANGED deviceVars
    /\ UNCHANGED wheelVars
    /\ UNCHANGED probe

handleSchedule ==
    /\ lastEvent.n < MaxSchedules
    /\ ScheduleRequest

\* the snoozed notification both handlers create (part_000 lines 124-146,
\* index.js lines 41-63)
Snoozed(nt) ==
    Reminder(nextId, IF nt.title = "" THEN "Work session" ELSE nt.title,
             "Snoozed for 10 minutes.", now + SnoozeMinutes, platform)

\* the handler of notifee.onForegroundEvent for an ACTION_PRESS, part_000
\* lines 117-154
onForegroundEvent_NoActionButtons(nt, action) ==
    IF action = "snooze"
    THEN /\ notifications' =
               cancelNotification(notifications, nt.id)
                   \cup { [Snoozed(nt) EXCEPT !.actions = {}] }
         /\ nextId' = nextId + 1
    ELSE /\ notifications' = cancelNotification(notifications, nt.id)
         /\ UNCHANGED nextId

onForegroundEvent(nt, action) ==
    IF action = "snooze"
    THEN /\ notifications' =
               cancelNotification(notifications, nt.id) \cup { Snoozed(nt) }
         /\ nextId' = nextId + 1
    ELSE /\ notifications' = cancelNotification(notifications, nt.id)
         /\ UNCHANGED nextId

\* the handler of notifee.onBackgroundEvent for an ACTION_PRESS, index.js
\* lines 31-71
onBackgroundEvent_NoPermissionCheck(nt, action) ==
    IF action = "snooze"
    THEN /\ notifications' =
               cancelNotification(notifications, nt.id) \cup { Snoozed(nt) }
         /\ nextId' = nextId + 1
    ELSE /\ notifications' = cancelNotification(notifications, nt.id)
         /\ UNCHANGED nextId

onBackgroundEvent(nt, action) ==
    IF action = "snooze"
    THEN IF authStatus = "DENIED"
         THEN UNCHANGED << notifications, nextId >>
         ELSE /\ notifications' =
                    cancelNotification(notifications, nt.id)
                        \cup { Snoozed(nt) }
              /\ nextId' = nextId + 1
    ELSE /\ notifications' = cancelNotification(notifications, nt.id)
         /\ UNCHANGED nextId

\* the user presses an action button of a notification that is shown
PressAction(handler) ==
    /\ lastEvent.n < MaxEvents
    /\ \E nt \in notifications :
         \E action \in nt.actions :
            /\ nt.shown
            /\ IF handler = "foreground"
               THEN onForegroundEvent(nt, action)
               ELSE onBackgroundEvent(nt, action)
            /\ lastEvent' = Event(action, handler, nt.id, nt.at, nt.body)
    /\ UNCHANGED << startTime, durationHours, durationMinutes, history,
                    lastAlert >>
    /\ UNCHANGED deviceVars
    /\ UNCHANGED wheelVars
    /\ UNCHANGED probe

ForegroundPress == inForeground /\ PressAction("foreground")

BackgroundPress == ~inForeground /\ PressAction("background")

(* The device *)

\* a pending notification reaches its trigger instant and is shown
Fire ==
    /\ \E nt \in notifications :
          /\ ~nt.shown
          /\ nt.at <= now
          /\ notifications' =
                (notifications \ {nt}) \cup { [nt EXCEPT !.shown = TRUE] }
    /\ UNCHANGED << startTime, durationHours, durationMinutes, history,
                    lastAlert, nextId, lastEvent >>
    /\ UNCHANGED deviceVars
    /\ UNCHANGED wheelVars
    /\ UNCHANGED probe

ClockTick ==
    /\ \E d \in ClockSteps :
          /\ now + d <= LastInstant
          /\ now' = now + d
    /\ UNCHANGED << startTime, durationHours, durationMinutes, history,
                    lastAlert, notifications, nextId, lastEvent, platform,
                    authStatus, channelBlocked, inForeground >>
    /\ UNCHANGED wheelVars
    /\ UNCHANGED probe

\* the app goes to the background or comes back
SwitchApp ==
    /\ inForeground' = ~inForeground
    /\ UNCHANGED << startTime, durationHours, durationMinutes, history,
                    lastAlert, notifications, nextId, lastEvent, now,
                    platform, authStatus, channelBlocked >>
    /\ UNCHANGED wheelVars
    /\ UNCHANGED probe

\* the user changes the notification permission in the settings
ChangePermission ==
    /\ \E a \in AuthStatuses \ {authStatus} : authStatus' = a
    /\ UNCHANGED << startTime, durationHours, durationMinutes, history,
                    lastAlert, notifications, nextId, lastEvent, now,
                    platform, channelBlocked, inForeground >>
    /\ UNCHANGED wheelVars
    /\ UNCHANGED probe

(* The screen is studied in two parts, which meet in handleSchedule only:  *)
(* the form with handleSchedule, where no notification is acted on, and    *)
(* the notifications with their action handlers, where the form is filled  *)
(* in by the minutes field alone.  handleSchedule reads nothing the action *)
(* handlers write but the next id, and the action handlers read nothing of *)
(* the form.                                                               *)

NextSchedule ==
    \/ MountEffect
    \/ handleChangeHours
    \/ handleChangeMinutes
    \/ setPresetDuration
    \/ PickNow
    \/ bumpStartTimeByMinutes
    \/ ClearHistory
    \/ handleSchedule
    \/ ClockTick
    \/ ChangePermission

SpecSchedule == InitApp /\ [][NextSchedule]_vars

NextSnooze ==
    \/ MountEffect
    \/ handleChangeMinutes
    \/ handleSchedule
    \/ ForegroundPress
    \/ BackgroundPress
    \/ Fire
    \/ ClockTick
    \/ SwitchApp
    \/ ChangePermission

SpecSnooze == InitApp /\ [][NextSnooze]_vars

-----------------------------------------------------------------------------
(* Properties of the reminder screen *)

\* the number a duration text stands for: parseInt(text || '0', 10)
TextNumber(text) == IF text = Null THEN 0 ELSE text

\* the total the screen is rendered with
RenderedTotal == totalDurationMinutes(durationHours, durationMinutes)

\* a step of handleSchedule in which a notification was created
ScheduledStep ==
    /\ lastEvent'.n = lastEvent.n + 1
    /\ lastEvent'.kind = "schedule"
    /\ lastEvent'.id # Null

PressStep(kind) ==
    /\ lastEvent'.n = lastEvent.n + 1
    /\ lastEvent'.kind = kind

C27_SnoozeHandlersDifferWhenDenied ==
    [][(PressStep("snooze") /\ authStatus = "DENIED") =>
          IF lastEvent'.handler = "background"
          THEN /\ notifications' = notifications
               /\ nextId' = nextId
               /\ \E x \in notifications' : x.id = lastEvent'.id
          ELSE /\ lastEvent'.handler = "foreground"
               /\ \A x \in notifications' : x.id # lastEvent'.id
               /\ Cardinality(notifications \ notifications') = 1
               /\ \E new \in notifications' \ notifications :
                     /\ notifications' \ notifications = {new}
                     /\ new.at = now + SnoozeMinutes
                     /\ new.body = "Snoozed for 10 minutes."
                     /\ ~new.shown]_vars

\* snooze pressed in the background with permission DENIED: the
\* notification pressed is still shown and nothing is waiting
C27_Witness ==
    /\ lastEvent.kind = "snooze"
    /\ lastEvent.handler = "background"
    /\ authStatus = "DENIED"
    /\ \E x \in notifications : x.id = lastEvent.id /\ x.shown
    /\ \A x \in notifications : x.shown

-----------------------------------------------------------------------------
(* Schedule requests refused, and accepted without a notification *)

\* a call of handleSchedule was handled in this step
ScheduleCallStep ==
    /\ lastEvent'.n = lastEvent.n + 1
    /\ lastEvent'.handler = "app"

\* C21: handleSchedule refuses a request when totalDurationMinutes <= 0 and
\* when the computed end time is not after the current time; in both cases
\* no history entry is added and no notification is scheduled.
C21_RefusedWithoutEffect ==
    [][(ScheduleCallStep
          /\ (RenderedTotal <= 0
                \/ computedEndTime(startTime', RenderedTotal) <= now)) =>
         /\ lastEvent'.kind = "refused"
         /\ history' = history
         /\ notifications' = notifications
         /\ nextId' = nextId]_vars

\* a request refused for its end time, after one that was accepted: the
\* history and the notifications are those of the first
C21_Witness ==
    /\ lastEvent.n = 2
    /\ lastEvent.kind = "refused"
    /\ lastEvent.at # Null
    /\ lastAlert = "End time passed"
    /\ Len(history) = 1
    /\ Cardinality(notifications) = 1

\* C26: handleSchedule adds the history entry before the notification is
\* created and never removes it: when scheduleNotification returns early
\* (permission DENIED or channel blocked) or throws, the history holds an
\* entry for a reminder that was not scheduled.
C26_HistoryKeptWhenNotScheduled ==
    [][/\ (ScheduleCallStep /\ lastEvent'.kind = "schedule"
              /\ lastEvent'.id = Null) =>
             /\ Len(history') >= 1
             /\ history'[1] = [start |-> startTime', end |-> lastEvent'.at]
             /\ notifications' = notifications
             /\ lastAlert' \in {"Notifications disabled", "Channel blocked",
                                "Error"}
       /\ (ScheduleCallStep /\ lastEvent'.kind = "schedule"
              /\ platform = "android"
              /\ (authStatus = "DENIED" \/ channelBlocked)) =>
             lastEvent'.id = Null
       /\ (Len(history') < Len(history)) => history' = << >>]_vars

\* the creation of the notification failed: the Error alert is shown, no
\* notification is held, and the history has the entry
C26_Witness ==
    /\ lastEvent.kind = "schedule"
    /\ lastEvent.id = Null
    /\ lastAlert = "Error"
    /\ notifications = {}
    /\ Len(history) = 1
    /\ history[1].end = lastEvent.at

-----------------------------------------------------------------------------
(* The history on its own: up to MaxHistoryRequests schedule requests and  *)
(* Clear presses, the minutes field giving two durations.  The device      *)
(* denies notifications, so that the requests leave no notification        *)
(* behind; the history is written before the permission is looked at.      *)

InitHistory ==
    /\ DefaultWheel
    /\ probe = NoProbe
    /\ AppInit("android", "DENIED", FALSE)

ScheduleMany ==
    /\ lastEvent.n < MaxHistoryRequests
    /\ ScheduleRequest

NextHistory ==
    \/ MountEffect
    \/ handleChangeMinutes
    \/ ScheduleMany
    \/ ClearHistory

SpecHistory == InitHistory /\ [][NextHistory]_vars

\* C22: after any sequence of accepted schedule requests and Clear presses
\* the history holds at most 10 entries, newest first, the most recently
\* accepted since the last Clear; the 11th accepted request drops the
\* oldest entry.
C22_HistoryNewestFirstCapped ==
    /\ [](Len(history) <= 10)
    /\ [][/\ (ScheduleCallStep /\ lastEvent'.kind = "schedule") =>
                /\ Len(history') = Min(10, Len(history) + 1)
                /\ history'[1] = [start |-> startTime', end |-> lastEvent'.at]
                /\ \A i \in 2 .. Len(history') : history'[i] = history[i - 1]
          /\ (ScheduleCallStep /\ lastEvent'.kind = "refused") =>
                history' = history
          /\ (~ScheduleCallStep) =>
                (history' = history \/ history' = << >>)]_vars

\* twelve requests accepted in a row: the history holds the last ten, the
\* newest and the oldest of them of different durations
C22_Witness ==
    /\ lastEvent.n = MaxHistoryRequests
    /\ Len(history) = HistoryCap
    /\ \A i \in 1 .. Len(history) : history[i].start = FirstInstant
    /\ history[1].end # history[HistoryCap].end
    /\ history[1].end = lastEvent.at

-----------------------------------------------------------------------------
(* The start-time dialog: syncManualInputsFromDate (lines 190-198) writes  *)
(* the hour, minute and AM/PM fields from a Date, and                      *)
(* applyManualStartFromInputs (lines 200-221) builds a Date of today from  *)
(* them.  A text is the sequence of its decimal digits.                    *)

getHours(d) == ((d + TzOffset) \div 60) % 24

\* setHours(h, m, 0, 0) on the Date d
setHours(d, h, m) ==
    ((d + TzOffset) - ((d + TzOffset) % (24 * 60))) + h * 60 + m - TzOffset

\* String(n) for n >= 0
RECURSIVE DigitsOf(_)
DigitsOf(n) == IF n < 10 THEN << n >> ELSE Append(DigitsOf(n \div 10), n % 10)

\* text.padStart(2, '0')
PadStart2(text) == IF Len(text) < 2 THEN << 0 >> \o text ELSE text

\* text.replace(/[^0-9]/g, '')
IsDigit(c) == c \in 0 .. 9

DigitsOnly(text) == SelectSeq(text, IsDigit)

\* Number.parseInt(text || '0', 10) of a text of digits
RECURSIVE ParseInt(_)
ParseInt(text) ==
    IF text = << >> THEN 0
    ELSE 10 * ParseInt(SubSeq(text, 1, Len(text) - 1)) + text[Len(text)]

syncManualInputsFromDate(date) ==
    [hourInput |-> DigitsOf(((getHours(date) + 11) % 12) + 1),
     minuteInput |-> PadStart2(DigitsOf(getMinutes(date))),
     amPm |-> IF getHours(date) < 12 THEN "AM" ELSE "PM"]

\* lines 217-218
Hour24_NoWrap(hour, ampm) == hour + (IF ampm = "PM" THEN 12 ELSE 0)

Hour24(hour, ampm) == (hour % 12) + (IF ampm = "PM" THEN 12 ELSE 0)

applyManualStartFromInputs(hourInput, minuteInput, ampm, base) ==
    LET hour == Max(1, Min(12, ParseInt(DigitsOnly(hourInput))))
        minute == Max(0, Min(59, ParseInt(DigitsOnly(minuteInput))))
    IN  setHours(base, Hour24(hour, ampm), minute)

\* every minute of the day of FirstInstant
DayInstants ==
    { setHours(FirstInstant, h, m) : h \in 0 .. 23, m \in 0 .. 59 }

InitManual ==
    /\ DefaultWheel
    /\ DefaultApp
    /\ probe \in { [fn |-> "manualStart", date |-> d, stage |-> 0,
                     hourInput |-> << >>, minuteInput |-> << >>,
                     amPm |-> "AM", result |-> Null] : d \in DayInstants }

\* openStartModal, lines 223-226, on the start time probe.date
openStartModal ==
    /\ probe.fn = "manualStart"
    /\ probe.stage = 0
    /\ \E f \in { syncManualInputsFromDate(probe.date) } :
          probe' = [probe EXCEPT !.stage = 1,
                                 !.hourInput = f.hourInput,
                                 !.minuteInput = f.minuteInput,
                                 !.amPm = f.amPm]
    /\ UNCHANGED wheelVars
    /\ UNCHANGED appVars

\* confirmStartModal, lines 232-235
confirmStartModal ==
    /\ probe.fn = "manualStart"
    /\ probe.stage = 1
    /\ probe' = [probe EXCEPT
                    !.stage = 2,
                    !.result = applyManualStartFromInputs(
                                   probe.hourInput, probe.minuteInput,
                                   probe.amPm, now)]
    /\ UNCHANGED wheelVars
    /\ UNCHANGED appVars

NextManual == openStartModal \/ confirmStartModal

SpecManual == InitManual /\ [][NextManual]_vars

\* C23: for every hour h in 0..23 and minute m in 0..59 the fields written
\* by syncManualInputsFromDate, given to applyManualStartFromInputs, yield a
\* start time of hour h and minute m again; 12 AM stands for hour 0 and
\* 12 PM for hour 12, and the hour field is always in 1..12.
C23_ManualStartRoundTrip ==
    (probe.fn = "manualStart") =>
        /\ (probe.stage >= 1 =>
               /\ ParseInt(probe.hourInput) \in 1 .. 12
               /\ (getHours(probe.date) = 0 =>
                      probe.hourInput = << 1, 2 >> /\ probe.amPm = "AM")
               /\ (getHours(probe.date) = 12 =>
                      probe.hourInput = << 1, 2 >> /\ probe.amPm = "PM"))
        /\ (probe.stage = 2 =>
               /\ getHours(probe.result) = getHours(probe.date)
               /\ getMinutes(probe.result) = getMinutes(probe.date))

\* five past midnight: the fields read 12, 05, AM and give hour 0 again
C23_Witness ==
    /\ probe.fn = "manualStart"
    /\ probe.stage = 2
    /\ probe.hourInput = << 1, 2 >>
    /\ probe.minuteInput = << 0, 5 >>
    /\ probe.amPm = "AM"
    /\ getHours(probe.result) = 0
    /\ getMinutes(probe.result) = 5

=============================================================================
